---- MODULE Spec2Model ----
(***************************************************************************)
(* Model of the calendar free/busy engine of Morning-tech-brief            *)
(* (src/src/calendar_util.py): one call of get_free_blocks, step by step.  *)
(*                                                                         *)
(* Time is counted in seconds.  A DTSTART/DTEND value is a record          *)
(*   [k, wall, off]                                                        *)
(* k = "date"  : a datetime.date; wall is 00:00 of that day                *)
(* k = "naive" : a datetime without tzinfo; wall is its wall clock         *)
(* k = "aware" : a datetime with tzinfo; wall is its wall clock in its own *)
(*               zone, off the zone's UTC offset; its instant is wall-off  *)
(* Zones are fixed offsets (America/Mexico_City has had none but UTC-6     *)
(* since 2022).                                                            *)
(***************************************************************************)
EXTENDS Integers, Sequences, FiniteSets, TLC

VARIABLES
    source,          \* what ics_path points at: "missing", "malformed", "ok"
    cal,             \* the VEVENT components of the calendar file
    recur_ok,        \* recurring_ical_events imports and between() succeeds
    min_block, deep_block, day_start_hour, day_end_hour,   \* arguments
    pc,              \* position inside get_free_blocks
    exc,             \* the exception that left get_free_blocks, or "none"
    win_start, win_end,
    comps,           \* _expand_events_for_range: comps
    degraded,        \* the except branch of line 79 was taken
    events,          \* _expand_events_for_range: events
    occurrences,     \* get_free_blocks: occurrences
    norm,            \* per occurrence: start_local, end_local (lines 150-155)
    busy, free, blocks, suggestions,
    calls,           \* how many times the caller has called get_free_blocks
    prev             \* what the caller got from the call before this one

vars == <<source, cal, recur_ok, min_block, deep_block, day_start_hour,
          day_end_hour, pc, exc, win_start, win_end, comps, degraded, events,
          occurrences, norm, busy, free, blocks, suggestions, calls, prev>>

inputs == <<source, cal, recur_ok, min_block, deep_block, day_start_hour,
            day_end_hour>>

----------------------------------------------------------------------------
(* Units and bounds *)

Minute == 60
Hour == 60 * Minute
Day == 24 * Hour

\* datetime.now(tz).date(), as a day number
Today == 1

\* UTC offset of the target zone tz (tz_name = "America/Mexico_City")
TzOff == 0 - 6 * Hour

\* largest number of VEVENT components in the calendar
MaxEvents == 2

\* how many times in a row the caller calls get_free_blocks
MaxCalls == 2

----------------------------------------------------------------------------
(* datetime values *)

NoVal == [k |-> "none", wall |-> 0, off |-> 0]
DateV(d) == [k |-> "date", wall |-> d * Day, off |-> 0]
Naive(w) == [k |-> "naive", wall |-> w, off |-> 0]
Aware(w, o) == [k |-> "aware", wall |-> w, off |-> o]

\* wall clock of h:m:s on day d
At(d, h, m, s) == d * Day + h * Hour + m * Minute + s

\* isinstance(v, datetime)
IsDatetime(v) == v.k \in {"naive", "aware"}

\* isinstance(v, date) and not isinstance(v, datetime)
IsDateOnly(v) == v.k = "date"

\* what datetime's ordering compares: the instant of an aware value, the wall
\* clock of a naive one
Key(v) == IF v.k = "aware" THEN v.wall - v.off ELSE v.wall

\* a < b and friends raise TypeError between a naive and an aware datetime
Comparable(a, b) == (a.k = "aware") <=> (b.k = "aware")
DtLt(a, b) == Key(a) < Key(b)
DtLe(a, b) == Key(a) <= Key(b)

\* Python's max(a, b) and min(a, b): the first argument wins a tie
PyMax(a, b) == IF DtLt(a, b) THEN b ELSE a
PyMin(a, b) == IF DtLt(b, a) THEN b ELSE a

\* v + timedelta(seconds = n)
AddSeconds(v, n) == [v EXCEPT !.wall = @ + n]

\* val.astimezone(tz): the same instant, read on tz's wall clock
AsTimezone(v) == Aware(v.wall - v.off + TzOff, TzOff)

\* val.replace(tzinfo = tz) and val.replace(tzinfo = None): the wall clock kept
ReplaceTz(v) == Aware(v.wall, TzOff)
StripTz(v) == Naive(v.wall)

\* datetime(v.year, v.month, v.day): naive midnight of v's day
MidnightOf(v) == Naive((v.wall \div Day) * Day)

\* (e - s).total_seconds() of two aware datetimes
TotalSeconds(s, e) == Key(e) - Key(s)

----------------------------------------------------------------------------
(* _to_local_dt *)

to_local_dt(val, is_end) ==
    IF IsDatetime(val)
    THEN IF val.k = "aware" THEN AsTimezone(val) ELSE ReplaceTz(val)
    ELSE IF is_end
         THEN AddSeconds(ReplaceTz(MidnightOf(val)), Day)
         ELSE ReplaceTz(MidnightOf(val))

(* _clip_interval: <<s, e>>, or <<>> for None *)

\* the end left unclipped: only the start is brought into the window
clip_start_only(start, end, ws, we) ==
    LET s == PyMax(start, ws)
    IN  IF DtLt(s, end) THEN <<s, end>> ELSE <<>>

\* the test s < e left out
clip_unchecked(start, end, ws, we) == <<PyMax(start, ws), PyMin(end, we)>>

clip_interval(start, end, ws, we) ==
    LET s == PyMax(start, ws)
        e == PyMin(end, we)
    IN  IF DtLt(s, e) THEN <<s, e>> ELSE <<>>

(* list.sort(key = lambda x: x[0]): a stable sort by start *)

RECURSIVE InsertByStart(_, _)
InsertByStart(sorted, x) ==
    IF sorted = <<>> THEN <<x>>
    ELSE IF DtLt(x[1], Head(sorted)[1])
         THEN <<x>> \o sorted
         ELSE <<Head(sorted)>> \o InsertByStart(Tail(sorted), x)

RECURSIVE SortByStart(_)
SortByStart(xs) ==
    IF xs = <<>> THEN <<>>
    ELSE InsertByStart(SortByStart(SubSeq(xs, 1, Len(xs) - 1)), xs[Len(xs)])

(* _merge_intervals *)

\* the adjacency test written as a strict overlap test
MergesStrict(s, le) == DtLt(s, le)

\* line 59: s <= le
Merges(s, le) == DtLe(s, le)

RECURSIVE MergeSweep(_, _)
MergeSweep(merged, rest) ==
    IF rest = <<>> THEN merged
    ELSE LET s == Head(rest)[1]
             e == Head(rest)[2]
             ls == merged[Len(merged)][1]
             le == merged[Len(merged)][2]
         IN  IF Merges(s, le)
             THEN MergeSweep([merged EXCEPT ![Len(merged)] = <<ls, PyMax(le, e)>>],
                             Tail(rest))
             ELSE MergeSweep(Append(merged, <<s, e>>), Tail(rest))

merge_intervals(intervals) ==
    IF intervals = <<>> THEN <<>>
    ELSE LET sorted == SortByStart(intervals)
         IN  MergeSweep(<<Head(sorted)>>, Tail(sorted))

----------------------------------------------------------------------------
(* A VEVENT component: DTSTART and DTEND (either may be absent), and whether
   it carries a daily RRULE *)

Event(st, en, rr) ==
    [has_start |-> st # NoVal, start |-> st, has_end |-> en # NoVal,
     end |-> en, rrule |-> rr]

\* the components a calendar of the model is made of; all on Today's date
\* unless said otherwise, local meaning an aware value in the target zone
Catalog ==
    << \* local 10:00-11:00
       Event(Aware(At(Today, 10, 0, 0), TzOff), Aware(At(Today, 11, 0, 0), TzOff), FALSE),
       \* local 19:00:00-20:00:30
       Event(Aware(At(Today, 19, 0, 0), TzOff), Aware(At(Today, 20, 0, 30), TzOff), FALSE),
       \* all-day, DTSTART;VALUE=DATE today, DTEND;VALUE=DATE tomorrow
       Event(DateV(Today), DateV(Today + 1), FALSE),
       \* local 09:00-10:00
       Event(Aware(At(Today, 9, 0, 0), TzOff), Aware(At(Today, 10, 0, 0), TzOff), FALSE),
       \* local 13:00-13:00, no duration
       Event(Aware(At(Today, 13, 0, 0), TzOff), Aware(At(Today, 13, 0, 0), TzOff), FALSE),
       \* UTC 15:30-16:30, which is local 09:30-10:30
       Event(Aware(At(Today, 15, 30, 0), 0), Aware(At(Today, 16, 30, 0), 0), FALSE),
       \* floating (no zone) 14:00-15:00
       Event(Naive(At(Today, 14, 0, 0)), Naive(At(Today, 15, 0, 0)), FALSE),
       \* local 07:00-22:00, around the default window
       Event(Aware(At(Today, 7, 0, 0), TzOff), Aware(At(Today, 22, 0, 0), TzOff), FALSE),
       \* local 12:00, DTEND 11:30 before DTSTART
       Event(Aware(At(Today, 12, 0, 0), TzOff), Aware(At(Today, 11, 30, 0), TzOff), FALSE),
       \* all-day today without DTEND
       Event(DateV(Today), NoVal, FALSE),
       \* local 16:00 without DTEND
       Event(Aware(At(Today, 16, 0, 0), TzOff), NoVal, FALSE),
       \* no DTSTART
       Event(NoVal, Aware(At(Today, 18, 0, 0), TzOff), FALSE),
       \* local 22:00-23:00, after the default window
       Event(Aware(At(Today, 22, 0, 0), TzOff), Aware(At(Today, 23, 0, 0), TzOff), FALSE),
       \* local 17:30-18:00 since yesterday, repeating daily
       Event(Aware(At(Today - 1, 17, 30, 0), TzOff), Aware(At(Today - 1, 18, 0, 0), TzOff), TRUE) >>

\* calendars: up to MaxEvents components of the catalog, in catalog order
\* (which is not the order of their starts)
RECURSIVE Pick(_, _)
Pick(from, n) ==
    IF n = 0 \/ from > Len(Catalog) THEN {<<>>}
    ELSE Pick(from + 1, n)
         \cup {<<Catalog[from]>> \o c : c \in Pick(from + 1, n - 1)}

Calendars == Pick(1, MaxEvents)

\* (day_start_hour, day_end_hour): the default window, a one-hour window, an
\* inverted one and an empty one
Windows == {<<8, 21>>, <<8, 9>>, <<9, 8>>, <<8, 8>>}

MinBlocks == {60, 90}
DeepBlocks == {45, 90}

----------------------------------------------------------------------------
(* recurring_ical_events.of(cal).between(start_wide, end_wide): the
   occurrences, repeated ones included, that overlap the range.  Values
   without a zone are placed on the range's own clock. *)

LocalKey(v) == IF v.k = "aware" THEN v.wall - v.off ELSE v.wall - TzOff

SpanEnd(ev) ==
    IF ev.has_end THEN LocalKey(ev.end)
    ELSE IF IsDateOnly(ev.start) THEN LocalKey(ev.start) + Day
    ELSE LocalKey(ev.start)

InRange(ev, a, b) ==
    /\ LocalKey(ev.start) < Key(b)
    /\ (SpanEnd(ev) > Key(a) \/ LocalKey(ev.start) >= Key(a))

\* the k-th daily repetition of ev
Repeat(ev, k) ==
    [ev EXCEPT !.start = AddSeconds(@, k * Day),
               !.end = IF ev.has_end THEN AddSeconds(@, k * Day) ELSE @]

RECURSIVE Repeats(_, _, _, _)
Repeats(ev, k, a, b) ==
    IF LocalKey(Repeat(ev, k).start) >= Key(b) THEN <<>>
    ELSE (IF InRange(Repeat(ev, k), a, b) THEN <<Repeat(ev, k)>> ELSE <<>>)
         \o Repeats(ev, k + 1, a, b)

RECURSIVE between(_, _, _)
between(c, a, b) ==
    IF c = <<>> THEN <<>>
    ELSE LET ev == Head(c)
         IN  (IF ~ev.has_start THEN <<>>
              ELSE IF ev.rrule THEN Repeats(ev, 0, a, b)
              ELSE IF InRange(ev, a, b) THEN <<ev>> ELSE <<>>)
             \o between(Tail(c), a, b)

\* cal.walk("VEVENT"): the literal components
walk(c) == c

----------------------------------------------------------------------------
(* _expand_events_for_range *)

\* the default left out: a missing DTEND stays None
raw_end_missing(comp) == comp.end

\* lines 90-93: the end of a component
raw_end(comp) ==
    IF comp.has_end THEN comp.end
    ELSE IF IsDatetime(comp.start) THEN AddSeconds(comp.start, Hour)
    ELSE AddSeconds(MidnightOf(comp.start), Hour)

\* lines 83-102: the dict appended for a component with a DTSTART
EventDict(comp) ==
    [start |-> comp.start, end |-> raw_end(comp), all_day |-> IsDateOnly(comp.start)]

RECURSIVE collect_events(_)
collect_events(cs) ==
    IF cs = <<>> THEN <<>>
    ELSE (IF ~Head(cs).has_start THEN <<>> ELSE <<EventDict(Head(cs))>>)
         \o collect_events(Tail(cs))

\* lines 109-112: a date becomes the naive midnight of its day
AsDatetime(v) == IF IsDateOnly(v) THEN MidnightOf(v) ELSE v

\* line 113, s < rng_end and e > rng_start, evaluated left to right:
\* "raise" (TypeError), "keep" or "drop"
Overlap(s, e, rng_start, rng_end) ==
    IF ~Comparable(s, rng_end) THEN "raise"
    ELSE IF ~DtLt(s, rng_end) THEN "drop"
    ELSE IF ~Comparable(e, rng_start) THEN "raise"
    ELSE IF DtLt(rng_start, e) THEN "keep" ELSE "drop"

\* lines 104-118: [raised, out]
RECURSIVE keep_overlapping(_, _, _)
keep_overlapping(evs, rng_start, rng_end) ==
    IF evs = <<>> THEN [raised |-> FALSE, out |-> <<>>]
    ELSE LET ev == Head(evs)
             s == AsDatetime(ev.start)
             e == AsDatetime(ev.end)
             o == Overlap(s, e, rng_start, rng_end)
             rest == keep_overlapping(Tail(evs), rng_start, rng_end)
         IN  IF o = "raise" \/ rest.raised THEN [raised |-> TRUE, out |-> <<>>]
             ELSE IF o = "keep"
                  THEN [raised |-> FALSE,
                        out |-> <<[ev EXCEPT !.start = s, !.end = e]>> \o rest.out]
                  ELSE rest

----------------------------------------------------------------------------
(* get_free_blocks: the busy intervals (lines 147-161) *)

\* the guard of line 154 left out
no_clamp(start_local, end_local) == end_local

\* lines 154-155
clamp_end(start_local, end_local) ==
    IF DtLe(end_local, start_local)
    THEN AddSeconds(start_local, Minute)
    ELSE end_local

\* lines 150-155 for one occurrence: start_local, end_local as _to_local_dt
\* gave it (raw_end) and end_local after the guard (end)
Normalized(ev) ==
    LET start_local == to_local_dt(ev.start, FALSE)
        end_local == to_local_dt(ev.end, TRUE)
    IN  [start |-> start_local, raw_end |-> end_local,
         end |-> clamp_end(start_local, end_local)]

normalize_all(occ) == [i \in 1..Len(occ) |-> Normalized(occ[i])]

\* lines 157-159 over the loop: the clipped intervals that are not None
RECURSIVE clip_all(_, _, _)
clip_all(ns, ws, we) ==
    IF ns = <<>> THEN <<>>
    ELSE LET clipped == clip_interval(Head(ns).start, Head(ns).end, ws, we)
         IN  (IF clipped # <<>> THEN <<clipped>> ELSE <<>>)
             \o clip_all(Tail(ns), ws, we)

(* get_free_blocks: the free gaps (lines 163-171) *)

\* the gap after the last busy interval forgotten
no_trailing_gap(cur, we) == <<>>

\* the test cur < win_end left out
trailing_gap_unguarded(cur, we) == << <<cur, we>> >>

\* lines 170-171
trailing_gap(cur, we) == IF DtLt(cur, we) THEN << <<cur, we>> >> ELSE <<>>

\* lines 166-171
RECURSIVE cursor_walk(_, _, _)
cursor_walk(bs, cur, we) ==
    IF bs = <<>> THEN trailing_gap(cur, we)
    ELSE LET s == Head(bs)[1]
             e == Head(bs)[2]
         IN  (IF DtLt(cur, s) THEN << <<cur, s>> >> ELSE <<>>)
             \o cursor_walk(Tail(bs), PyMax(cur, e), we)

(* get_free_blocks: the returned blocks (lines 173-182) *)

\* the minutes rounded up instead of down
minutes_ceil(s, e) == (TotalSeconds(s, e) + Minute - 1) \div Minute

\* line 176: int((e - s).total_seconds() // 60)
minutes_of(s, e) == TotalSeconds(s, e) \div Minute

Block(s, e) == [start |-> StripTz(s), end |-> StripTz(e), minutes |-> minutes_of(s, e)]

\* the min_block test left out
keep_all_gaps(fr, minb) == [i \in 1..Len(fr) |-> Block(fr[i][1], fr[i][2])]

RECURSIVE make_blocks(_, _)
make_blocks(fr, minb) ==
    IF fr = <<>> THEN <<>>
    ELSE (IF minutes_of(Head(fr)[1], Head(fr)[2]) >= minb
          THEN <<Block(Head(fr)[1], Head(fr)[2])>> ELSE <<>>)
         \o make_blocks(Tail(fr), minb)

(* get_free_blocks: the suggestions (lines 184-194) *)

Suggestion(blk) ==
    [type |-> "Deep work", start |-> blk.start, end |-> blk.end,
     minutes |-> blk.minutes]

\* the loop without its break: one suggestion per block that fits
RECURSIVE every_deep_block(_, _)
every_deep_block(bl, deep) ==
    IF bl = <<>> THEN <<>>
    ELSE (IF Head(bl).minutes >= deep THEN <<Suggestion(Head(bl))>> ELSE <<>>)
         \o every_deep_block(Tail(bl), deep)

\* the loop without its break, keeping the last block that fits
RECURSIVE last_deep_block(_, _)
last_deep_block(bl, deep) ==
    IF bl = <<>> THEN <<>>
    ELSE IF Head(bl).minutes >= deep /\ last_deep_block(Tail(bl), deep) = <<>>
         THEN <<Suggestion(Head(bl))>>
         ELSE last_deep_block(Tail(bl), deep)

\* the loop run over the gaps of the walk instead of the kept blocks
RECURSIVE first_deep_of_gaps(_, _)
first_deep_of_gaps(fr, deep) ==
    IF fr = <<>> THEN <<>>
    ELSE IF minutes_of(Head(fr)[1], Head(fr)[2]) >= deep
         THEN <<Suggestion(Block(Head(fr)[1], Head(fr)[2]))>>
         ELSE first_deep_of_gaps(Tail(fr), deep)

first_deep_gap(bl, deep) == first_deep_of_gaps(free, deep)

\* lines 186-194: the first block that fits, then break
RECURSIVE first_deep_block(_, _)
first_deep_block(bl, deep) ==
    IF bl = <<>> THEN <<>>
    ELSE IF Head(bl).minutes >= deep THEN <<Suggestion(Head(bl))>>
    ELSE first_deep_block(Tail(bl), deep)

----------------------------------------------------------------------------
(* Locals: every list of get_free_blocks and of _expand_events_for_range is
   created empty by the call that fills it (lines 71, 105, 148, 164, 174,
   185) *)

\* the list of the call before, as a module-level list or a mutable default
\* argument would be
kept_list(old) == old

\* xs: List = []
empty_list(old) == <<>>

\* what a caller holds of a finished call: how it ended and what it returned
NoResult == [outcome |-> "none", exc |-> "none", blocks |-> <<>>, suggestions |-> <<>>]
Result == [outcome |-> pc, exc |-> exc, blocks |-> blocks, suggestions |-> suggestions]

----------------------------------------------------------------------------
(* The call get_free_blocks(ics_path, min_block, deep_block, day_start_hour,
   day_end_hour) *)

Init ==
    /\ source \in {"missing", "malformed", "ok"}
    /\ cal \in (IF source = "ok" THEN Calendars ELSE {<<>>})
    /\ recur_ok \in (IF source = "ok" THEN BOOLEAN ELSE {TRUE})
    /\ min_block \in MinBlocks
    /\ deep_block \in DeepBlocks
    /\ \E w \in Windows : day_start_hour = w[1] /\ day_end_hour = w[2]
    /\ pc = "load"
    /\ exc = "none"
    /\ win_start = NoVal
    /\ win_end = NoVal
    /\ comps = <<>>
    /\ degraded = FALSE
    /\ events = <<>>
    /\ occurrences = <<>>
    /\ norm = <<>>
    /\ busy = <<>>
    /\ free = <<>>
    /\ blocks = <<>>
    /\ suggestions = <<>>
    /\ calls = 1
    /\ prev = NoResult

\* line 139, _load_calendar line 16: the path does not exist
LoadNotFound ==
    /\ pc = "load"
    /\ source = "missing"
    /\ pc' = "raised"
    /\ exc' = "FileNotFoundError"
    /\ UNCHANGED <<inputs, calls, prev, win_start, win_end, comps, degraded, events,
                   occurrences, norm, busy, free, blocks, suggestions>>

\* line 139, _load_calendar line 19: Calendar.from_ical raises
LoadMalformed ==
    /\ pc = "load"
    /\ source = "malformed"
    /\ pc' = "raised"
    /\ exc' = "ValueError"
    /\ UNCHANGED <<inputs, calls, prev, win_start, win_end, comps, degraded, events,
                   occurrences, norm, busy, free, blocks, suggestions>>

\* line 139: the calendar is read and parsed
LoadOk ==
    /\ pc = "load"
    /\ source = "ok"
    /\ pc' = "window"
    /\ UNCHANGED <<inputs, calls, prev, exc, win_start, win_end, comps, degraded, events,
                   occurrences, norm, busy, free, blocks, suggestions>>

\* lines 141-143
Window ==
    /\ pc = "window"
    /\ win_start' = Aware(At(Today, day_start_hour, 0, 0), TzOff)
    /\ win_end' = Aware(At(Today, day_end_hour, 0, 0), TzOff)
    /\ pc' = "expand"
    /\ UNCHANGED <<inputs, calls, prev, exc, comps, degraded, events, occurrences, norm,
                   busy, free, blocks, suggestions>>

\* lines 74-78: the expansion by recurring_ical_events
ExpandFull ==
    /\ pc = "expand"
    /\ recur_ok
    /\ comps' = between(cal, AddSeconds(win_start, 0 - Day), AddSeconds(win_end, Day))
    /\ pc' = "collect"
    /\ UNCHANGED <<inputs, calls, prev, exc, win_start, win_end, degraded, events,
                   occurrences, norm, busy, free, blocks, suggestions>>

\* lines 79-81: the fallback to the literal components
ExpandFallback ==
    /\ pc = "expand"
    /\ ~recur_ok
    /\ comps' = walk(cal)
    /\ degraded' = TRUE
    /\ pc' = "collect"
    /\ UNCHANGED <<inputs, calls, prev, exc, win_start, win_end, events, occurrences, norm,
                   busy, free, blocks, suggestions>>

\* lines 83-102
Collect ==
    /\ pc = "collect"
    /\ events' = empty_list(events) \o collect_events(comps)
    /\ pc' = "overlap"
    /\ UNCHANGED <<inputs, calls, prev, exc, win_start, win_end, comps, degraded,
                   occurrences, norm, busy, free, blocks, suggestions>>

\* lines 104-118 and line 145: the comparison of line 113 raises TypeError
OverlapRaise ==
    /\ pc = "overlap"
    /\ keep_overlapping(events, win_start, win_end).raised
    /\ pc' = "raised"
    /\ exc' = "TypeError"
    /\ UNCHANGED <<inputs, calls, prev, win_start, win_end, comps, degraded, events,
                   occurrences, norm, busy, free, blocks, suggestions>>

\* lines 104-118 and line 145
OverlapOk ==
    /\ pc = "overlap"
    /\ ~keep_overlapping(events, win_start, win_end).raised
    /\ occurrences' = empty_list(occurrences) \o keep_overlapping(events, win_start, win_end).out
    /\ pc' = "busy"
    /\ UNCHANGED <<inputs, calls, prev, exc, win_start, win_end, comps, degraded, events,
                   norm, busy, free, blocks, suggestions>>

\* lines 148-159
BuildBusy ==
    /\ pc = "busy"
    /\ norm' = normalize_all(occurrences)
    /\ busy' = empty_list(busy) \o clip_all(normalize_all(occurrences), win_start, win_end)
    /\ pc' = "merge"
    /\ UNCHANGED <<inputs, calls, prev, exc, win_start, win_end, comps, degraded, events,
                   occurrences, free, blocks, suggestions>>

\* line 161
Merge ==
    /\ pc = "merge"
    /\ busy' = merge_intervals(busy)
    /\ pc' = "gaps"
    /\ UNCHANGED <<inputs, calls, prev, exc, win_start, win_end, comps, degraded, events,
                   occurrences, norm, free, blocks, suggestions>>

\* lines 164-171
Gaps ==
    /\ pc = "gaps"
    /\ free' = empty_list(free) \o cursor_walk(busy, win_start, win_end)
    /\ pc' = "blocks"
    /\ UNCHANGED <<inputs, calls, prev, exc, win_start, win_end, comps, degraded, events,
                   occurrences, norm, busy, blocks, suggestions>>

\* lines 174-182
Blocks ==
    /\ pc = "blocks"
    /\ blocks' = empty_list(blocks) \o make_blocks(free, min_block)
    /\ pc' = "suggest"
    /\ UNCHANGED <<inputs, calls, prev, exc, win_start, win_end, comps, degraded, events,
                   occurrences, norm, busy, free, suggestions>>

\* lines 185-196: the suggestion, and the return
Suggest ==
    /\ pc = "suggest"
    /\ suggestions' = empty_list(suggestions) \o first_deep_block(blocks, deep_block)
    /\ pc' = "done"
    /\ UNCHANGED <<inputs, calls, prev, exc, win_start, win_end, comps, degraded, events,
                   occurrences, norm, busy, free, blocks>>

\* the caller calls get_free_blocks again with the same arguments, the
\* calendar file and the date unchanged; nothing of the finished call is
\* handed to the new one
CallAgain ==
    /\ pc \in {"done", "raised"}
    /\ calls < MaxCalls
    /\ calls' = calls + 1
    /\ prev' = Result
    /\ pc' = "load"
    /\ exc' = "none"
    /\ UNCHANGED <<inputs, win_start, win_end, comps, degraded, events,
                   occurrences, norm, busy, free, blocks, suggestions>>

Next ==
    \/ LoadNotFound
    \/ LoadMalformed
    \/ LoadOk
    \/ Window
    \/ ExpandFull
    \/ ExpandFallback
    \/ Collect
    \/ OverlapRaise
    \/ OverlapOk
    \/ BuildBusy
    \/ Merge
    \/ Gaps
    \/ Blocks
    \/ Suggest
    \/ CallAgain

Spec == Init /\ [][Next]_vars

----------------------------------------------------------------------------
(* Vocabulary of the properties *)

\* busy holds the merged busy set (line 161 has run)
Merged == pc \in {"gaps", "blocks", "suggest", "done"}

\* free holds the gaps of the cursor walk (line 171 has run)
Walked == pc \in {"blocks", "suggest", "done"}

\* instant t lies in one of the intervals <<s, e>> of ivs, read [s, e)
Covers(ivs, t) == \E i \in 1..Len(ivs) : Key(ivs[i][1]) <= t /\ t < Key(ivs[i][2])

\* instant t lies in a normalized occurrence
Occupied(t) == \E i \in 1..Len(norm) : Key(norm[i].start) <= t /\ t < Key(norm[i].end)

InWindow(t) == Key(win_start) <= t /\ t < Key(win_end)

\* Every set of instants compared below is a union of intervals [s, e) whose
\* ends are among EndKeys, so membership is constant between two consecutive
\* members of EndKeys: the instants of Probes stand for all instants.
EndKeys ==
    {Key(win_start), Key(win_end)}
    \cup {Key(norm[i].start) : i \in 1..Len(norm)}
    \cup {Key(norm[i].end) : i \in 1..Len(norm)}
    \cup {Key(busy[i][1]) : i \in 1..Len(busy)}
    \cup {Key(busy[i][2]) : i \in 1..Len(busy)}
    \cup {Key(free[i][1]) : i \in 1..Len(free)}
    \cup {Key(free[i][2]) : i \in 1..Len(free)}

Probes == EndKeys \cup {k - 1 : k \in EndKeys}

WindowMinutes == minutes_of(win_start, win_end)

DefaultWindow == day_start_hour = 8 /\ day_end_hour = 21

Local(h, m) == Aware(At(Today, h, m, 0), TzOff)
Wall(h, m) == Naive(At(Today, h, m, 0))

----------------------------------------------------------------------------
(* C1: the list _merge_intervals returns is sorted by start, every interval
   of it has start < end, and two consecutive intervals (s1,e1), (s2,e2) have
   e1 < s2: overlapping and adjacent intervals are merged into one. *)
C1_MergedStrictlySeparated ==
    Merged =>
        /\ \A i \in 1..Len(busy) : DtLt(busy[i][1], busy[i][2])
        /\ \A i \in 1..(Len(busy) - 1) :
               /\ DtLt(busy[i][1], busy[i + 1][1])
               /\ DtLt(busy[i][2], busy[i + 1][1])

\* 09:00-10:00 and 10:00-11:00 went in and came out as one 09:00-11:00
C1_Witness ==
    /\ pc = "done"
    /\ \E i, j \in 1..Len(norm) :
           /\ norm[i].start = Local(9, 0) /\ norm[i].end = Local(10, 0)
           /\ norm[j].start = Local(10, 0) /\ norm[j].end = Local(11, 0)
    /\ busy = << <<Local(9, 0), Local(11, 0)>> >>

(* C2: the instants covered by the busy set (each normalized interval
   clipped, then all merged) are exactly the instants of the window that lie
   in some normalized interval: none lost, none added, none outside. *)
C2_BusyIsClippedUnion ==
    Merged => \A t \in Probes : Covers(busy, t) <=> (InWindow(t) /\ Occupied(t))

\* an occurrence reaching past both ends of the window was clipped, and
\* another one merged
C2_Witness ==
    /\ pc = "done"
    /\ Len(norm) = 2
    /\ \E i \in 1..Len(norm) :
           DtLt(norm[i].start, win_start) /\ DtLt(win_end, norm[i].end)
    /\ busy = << <<win_start, win_end>> >>

(* C3: every instant of the window lies in exactly one of the busy set and
   the gaps of the cursor walk; the blocks kept by min_block are gaps of the
   walk, unaltered, and the busy set is still the clipped union. *)
C3_Partition ==
    Walked =>
        /\ \A t \in Probes : InWindow(t) => (Covers(busy, t) <=> ~Covers(free, t))
        /\ \A t \in Probes : Covers(busy, t) <=> (InWindow(t) /\ Occupied(t))
        /\ pc \in {"suggest", "done"} =>
               \A i \in 1..Len(blocks) : \E j \in 1..Len(free) :
                   blocks[i] = Block(free[j][1], free[j][2])

\* a walk with busy time, a gap dropped by min_block and a gap kept
C3_Witness ==
    /\ pc = "done"
    /\ busy # <<>>
    /\ blocks # <<>>
    /\ Len(blocks) < Len(free)

(* C4: when the calendar cannot be loaded or parsed, get_free_blocks raises
   nothing and returns the whole window as one free gap. *)
C4_LoadFailureGivesWholeWindow ==
    (source # "ok" /\ pc # "load") =>
        /\ exc = "none"
        /\ pc = "done" => free = << <<win_start, win_end>> >>

(* C5: for every calendar that loads, whatever its events, get_free_blocks
   returns without raising. *)
C5_NeverRaises == source = "ok" => (pc # "raised" /\ exc = "none")

(* C6: at most one suggestion is returned; it is a "Deep work" suggestion
   with the start, end and minutes of the earliest returned block of at
   least deep_block minutes; there is none when no block is that long. *)
C6_FirstDeepBlock ==
    pc = "done" =>
        /\ Len(suggestions) <= 1
        /\ (\A i \in 1..Len(blocks) : blocks[i].minutes < deep_block)
               => suggestions = <<>>
        /\ (\E i \in 1..Len(blocks) : blocks[i].minutes >= deep_block)
               => \E i \in 1..Len(blocks) :
                      /\ blocks[i].minutes >= deep_block
                      /\ \A j \in 1..Len(blocks) :
                             blocks[j].minutes >= deep_block
                                 => blocks[i].start.wall <= blocks[j].start.wall
                      /\ suggestions = <<Suggestion(blocks[i])>>
                      /\ suggestions[1].type = "Deep work"

\* two blocks are long enough and the earlier one is suggested
C6_Witness ==
    /\ pc = "done"
    /\ Cardinality({i \in 1..Len(blocks) : blocks[i].minutes >= deep_block}) >= 2
    /\ Len(suggestions) = 1
    /\ suggestions[1].start = blocks[1].start

(* C7 as stated: window 08:00-21:00, one busy interval 10:00-11:00 and
   min_block = 60 give the gaps 08:00-10:00 (120) and 11:00-21:00 (600), and
   with deep_block = 90 the one suggestion Deep work 11:00-21:00. *)
C7_Scenario ==
    (pc = "done" /\ DefaultWindow /\ min_block = 60
       /\ busy = << <<Local(10, 0), Local(11, 0)>> >>) =>
        /\ blocks = << [start |-> Wall(8, 0), end |-> Wall(10, 0), minutes |-> 120],
                       [start |-> Wall(11, 0), end |-> Wall(21, 0), minutes |-> 600] >>
        /\ deep_block = 90 =>
               suggestions = << [type |-> "Deep work", start |-> Wall(11, 0),
                                 end |-> Wall(21, 0), minutes |-> 600] >>

(* C7 amended: the same gaps, and with deep_block = 90 the one suggestion is
   Deep work 08:00-10:00 (120 minutes), the first gap of at least 90. *)
C7_ScenarioAmended ==
    (pc = "done" /\ DefaultWindow /\ min_block = 60
       /\ busy = << <<Local(10, 0), Local(11, 0)>> >>) =>
        /\ blocks = << [start |-> Wall(8, 0), end |-> Wall(10, 0), minutes |-> 120],
                       [start |-> Wall(11, 0), end |-> Wall(21, 0), minutes |-> 600] >>
        /\ deep_block = 90 =>
               suggestions = << [type |-> "Deep work", start |-> Wall(8, 0),
                                 end |-> Wall(10, 0), minutes |-> 120] >>

C7_Witness ==
    /\ pc = "done" /\ DefaultWindow /\ min_block = 60 /\ deep_block = 90
    /\ busy = << <<Local(10, 0), Local(11, 0)>> >>
    /\ Len(suggestions) = 1

(* C8 as stated, for a window with win_start < win_end: with no occurrence
   overlapping the window, exactly one gap covering the whole window is
   returned, and a suggestion is present iff the window is at least
   deep_block minutes long, whatever min_block and deep_block are. *)
C8_EmptyCalendar ==
    (pc = "done" /\ occurrences = <<>> /\ DtLt(win_start, win_end)) =>
        /\ blocks = <<Block(win_start, win_end)>>
        /\ suggestions # <<>> <=> WindowMinutes >= deep_block

(* C8 amended: with no occurrence overlapping the window, a non-empty window
   of at least min_block minutes is returned as exactly one gap, with a
   suggestion iff it is at least deep_block minutes long; a window shorter
   than min_block, or an empty or inverted one, gives no gap and no
   suggestion. *)
C8_EmptyCalendarAmended ==
    (pc = "done" /\ occurrences = <<>>) =>
        IF DtLt(win_start, win_end) /\ WindowMinutes >= min_block
        THEN /\ blocks = <<Block(win_start, win_end)>>
             /\ suggestions # <<>> <=> WindowMinutes >= deep_block
        ELSE blocks = <<>> /\ suggestions = <<>>

\* a calendar with components, none in the one-hour window, and min_block
\* above the window's 60 minutes
C8_Witness ==
    /\ pc = "done"
    /\ cal # <<>>
    /\ occurrences = <<>>
    /\ DtLt(win_start, win_end)
    /\ WindowMinutes < min_block
    /\ WindowMinutes >= deep_block
    /\ blocks = <<>>

(* C9: an occurrence whose end, on the target zone's clock, is not after its
   start is busy from its start for exactly one minute before clipping, and
   no busy interval has zero or negative length. *)
C9_ClampedToOneMinute ==
    pc \in {"merge", "gaps", "blocks", "suggest", "done"} =>
        /\ \A i \in 1..Len(norm) :
               /\ DtLe(norm[i].raw_end, norm[i].start)
                      => TotalSeconds(norm[i].start, norm[i].end) = Minute
               /\ DtLt(norm[i].start, norm[i].end)
        /\ \A i \in 1..Len(busy) : DtLt(busy[i][1], busy[i][2])

\* a DTEND before DTSTART, and the one-minute busy interval it left
C9_Witness ==
    /\ pc = "done"
    /\ \E i \in 1..Len(norm) :
           /\ DtLt(norm[i].raw_end, norm[i].start)
           /\ \E j \in 1..Len(busy) :
                  busy[j] = <<norm[i].start, AddSeconds(norm[i].start, Minute)>>

(* C10: an all-day event on date D, through the whole of get_free_blocks, is
   busy over exactly [D 00:00, D+1 00:00) on the target zone's clock. *)
C10_AllDayExactlyOneDay ==
    (pc \in {"done", "raised"} /\ day_start_hour < day_end_hour
       /\ \E i \in 1..Len(cal) :
              cal[i].start = DateV(Today) /\ cal[i].end = DateV(Today + 1)) =>
        /\ pc = "done"
        /\ \E i \in 1..Len(norm) :
               /\ norm[i].start = Aware(At(Today, 0, 0, 0), TzOff)
               /\ norm[i].end = Aware(At(Today + 1, 0, 0, 0), TzOff)

(* C11: a second call of get_free_blocks with the same calendar, window,
   date and thresholds ends as the first did and returns the same blocks and
   the same suggestions. *)
C11_SecondCallSameResult ==
    (calls >= 2 /\ pc \in {"done", "raised"}) =>
        /\ pc = prev.outcome
        /\ exc = prev.exc
        /\ blocks = prev.blocks
        /\ suggestions = prev.suggestions

\* a second call has returned blocks and a suggestion
C11_Witness ==
    /\ calls = 2
    /\ pc = "done"
    /\ Len(blocks) >= 2
    /\ suggestions # <<>>
    /\ prev.outcome = "done"

(* C12: the returned blocks are exactly the gaps of the cursor walk whose
   whole minutes (seconds / 60 rounded down) are >= min_block: each block is
   such a gap with those minutes, each such gap is a block, and the blocks
   are in chronological order. *)
C12_BlocksAreLongGaps ==
    pc \in {"suggest", "done"} =>
        /\ \A i \in 1..Len(blocks) :
               /\ blocks[i].minutes >= min_block
               /\ \E j \in 1..Len(free) :
                      /\ blocks[i].start = StripTz(free[j][1])
                      /\ blocks[i].end = StripTz(free[j][2])
                      /\ blocks[i].minutes * Minute <= TotalSeconds(free[j][1], free[j][2])
                      /\ TotalSeconds(free[j][1], free[j][2]) < (blocks[i].minutes + 1) * Minute
        /\ \A j \in 1..Len(free) :
               TotalSeconds(free[j][1], free[j][2]) >= min_block * Minute
                   => \E i \in 1..Len(blocks) :
                          /\ blocks[i].start = StripTz(free[j][1])
                          /\ blocks[i].end = StripTz(free[j][2])
        /\ \A i \in 1..(Len(blocks) - 1) :
               blocks[i].start.wall < blocks[i + 1].start.wall

\* a gap of 59 minutes 30 seconds, 59 whole minutes, was dropped by
\* min_block = 60 while another gap was kept
C12_Witness ==
    /\ pc = "done"
    /\ min_block = 60
    /\ blocks # <<>>
    /\ \E j \in 1..Len(free) :
           /\ TotalSeconds(free[j][1], free[j][2]) = 59 * Minute + 30
           /\ \A i \in 1..Len(blocks) : blocks[i].start # StripTz(free[j][1])

(* C13: every gap of the cursor walk has start < end, lies inside the
   window, overlaps no busy interval, starts at win_start or at the end of a
   busy interval and ends at win_end or at the start of a busy interval; the
   gaps are in strictly increasing order and pairwise disjoint. *)
C13_GapsAreMaximal ==
    Walked =>
        /\ \A j \in 1..Len(free) :
               /\ DtLt(free[j][1], free[j][2])
               /\ DtLe(win_start, free[j][1])
               /\ DtLe(free[j][2], win_end)
               /\ \A i \in 1..Len(busy) :
                      ~(DtLt(free[j][1], busy[i][2]) /\ DtLt(busy[i][1], free[j][2]))
               /\ \/ free[j][1] = win_start
                  \/ \E i \in 1..Len(busy) : busy[i][2] = free[j][1]
               /\ \/ free[j][2] = win_end
                  \/ \E i \in 1..Len(busy) : busy[i][1] = free[j][2]
        /\ \A j \in 1..(Len(free) - 1) :
               /\ DtLt(free[j][1], free[j + 1][1])
               /\ DtLe(free[j][2], free[j + 1][1])

\* two busy intervals inside the window, three gaps around them
C13_Witness ==
    /\ pc = "done"
    /\ Len(busy) = 2
    /\ Len(free) = 3

(* C14: for an all-day occurrence (DTSTART and DTEND given as dates) the
   normalization of get_free_blocks gives start = local midnight of the start
   date and end = local midnight of the day after the end date. *)
C14_AllDayNormalized ==
    (pc \in {"done", "raised"} /\ day_start_hour < day_end_hour) =>
        \A i \in 1..Len(cal) :
            (IsDateOnly(cal[i].start) /\ cal[i].has_end /\ IsDateOnly(cal[i].end)) =>
                /\ pc = "done"
                /\ \E j \in 1..Len(norm) :
                       /\ norm[j].start = Aware(cal[i].start.wall, TzOff)
                       /\ norm[j].raw_end = Aware(cal[i].end.wall + Day, TzOff)

(* C15: of the components _expand_events_for_range collects, one without
   DTSTART is skipped; one without DTEND gets an end: its start + 1 hour when
   the start is a datetime, 01:00 of its start date when the start is a date;
   one with DTEND keeps it. *)
HasStart(comp) == comp.has_start

C15_MissingEndDefaulted ==
    pc = "overlap" =>
        LET started == SelectSeq(comps, HasStart)
        IN  /\ Len(events) = Len(started)
            /\ \A i \in 1..Len(events) :
                   /\ events[i].start = started[i].start
                   /\ events[i].end # NoVal
                   /\ started[i].has_end => events[i].end = started[i].end
                   /\ (~started[i].has_end /\ IsDatetime(started[i].start)) =>
                          /\ events[i].end.k = started[i].start.k
                          /\ events[i].end.off = started[i].start.off
                          /\ events[i].end.wall = started[i].start.wall + Hour
                   /\ (~started[i].has_end /\ IsDateOnly(started[i].start)) =>
                          events[i].end = Naive(started[i].start.wall + Hour)

\* an all-day and a timed component, both without DTEND, were collected
C15_Witness ==
    /\ pc = "overlap"
    /\ Len(events) = 2
    /\ \E i \in 1..2 : events[i].all_day /\ events[i].end = Naive(At(Today, 1, 0, 0))
    /\ \E i \in 1..2 : ~events[i].all_day /\ events[i].end = Aware(At(Today, 17, 0, 0), TzOff)

(* C16: _expand_events_for_range returns exactly the collected occurrences
   whose normalized interval (start and end as instants on the target zone's
   clock) overlaps [rng_start, rng_end): none outside it, and every one that
   overlaps it. *)
NormalOverlaps(ev) ==
    /\ DtLt(Normalized(ev).start, win_end)
    /\ DtLt(win_start, Normalized(ev).end)

C16_ExactlyTheOverlapping ==
    (DtLt(win_start, win_end) /\ (pc = "busy" \/ (pc = "raised" /\ exc = "TypeError"))) =>
        /\ pc = "busy"
        /\ \A j \in 1..Len(occurrences) : NormalOverlaps(occurrences[j])
        /\ \A i \in 1..Len(events) :
               NormalOverlaps(events[i]) =>
                   \E j \in 1..Len(occurrences) :
                       /\ occurrences[j].start = AsDatetime(events[i].start)
                       /\ occurrences[j].end = AsDatetime(events[i].end)

(* C17: when recurrence expansion is unavailable or fails,
   _expand_events_for_range goes on with the literal VEVENT components of the
   calendar and does not fail, and get_free_blocks still returns a result. *)
C17_FallbackStillReturns ==
    (source = "ok" /\ ~recur_ok /\ pc \notin {"load", "window", "expand"}) =>
        /\ degraded
        /\ comps = cal
        /\ pc # "raised"
        /\ exc = "none"

(* C18: every returned suggestion has the start, end and minutes of a block
   returned by the same call, so its minutes are >= min_block and >=
   deep_block; a gap of at least deep_block but fewer than min_block minutes
   is never suggested. *)
C18_SuggestionIsReturnedBlock ==
    pc = "done" =>
        /\ \A k \in 1..Len(suggestions) :
               /\ \E i \in 1..Len(blocks) :
                      /\ suggestions[k].start = blocks[i].start
                      /\ suggestions[k].end = blocks[i].end
                      /\ suggestions[k].minutes = blocks[i].minutes
               /\ suggestions[k].minutes >= min_block
               /\ suggestions[k].minutes >= deep_block
        /\ \A j \in 1..Len(free) :
               (minutes_of(free[j][1], free[j][2]) >= deep_block
                  /\ minutes_of(free[j][1], free[j][2]) < min_block) =>
                   \A k \in 1..Len(suggestions) :
                       suggestions[k].start # StripTz(free[j][1])

\* deep_block below min_block, the first gap of the walk between the two,
\* and a later gap suggested
C18_Witness ==
    /\ pc = "done"
    /\ deep_block < min_block
    /\ free # <<>>
    /\ minutes_of(free[1][1], free[1][2]) >= deep_block
    /\ minutes_of(free[1][1], free[1][2]) < min_block
    /\ Len(suggestions) = 1
    /\ suggestions[1].start # StripTz(free[1][1])

(* C19: with day_start_hour >= day_end_hour no busy interval survives
   clipping, the cursor walk emits no gap, and get_free_blocks returns no
   blocks and no suggestions, whatever the calendar and the thresholds. *)
C19_EmptyWindowGivesNothing ==
    day_start_hour >= day_end_hour =>
        /\ pc \in {"merge", "gaps", "blocks", "suggest", "done"} => busy = <<>>
        /\ Walked => free = <<>>
        /\ pc \in {"suggest", "done"} => blocks = <<>>
        /\ pc = "done" => suggestions = <<>>

\* an occurrence passed the overlap test of an inverted window, was clipped
\* away, and the call returned nothing
C19_Witness ==
    /\ pc = "done"
    /\ day_start_hour > day_end_hour
    /\ occurrences # <<>>
    /\ busy = <<>>
    /\ blocks = <<>>
    /\ suggestions = <<>>

====
